---- MODULE Spec2Model ----
(***************************************************************************)
(* The layout precomputation scripts of AI4HR_Map:                         *)
(*   src/precompute_layout.js  (dense profile, classifies topic links)     *)
(*   src/unnamed/part_001      (sparse profile)                            *)
(* Each script is a straight-line batch program: load vault_data.json,     *)
(* (classify links,) count degrees, assign sizes, build a d3-force         *)
(* simulation, stop its timer, tick it SIMULATION_TICKS times, project the *)
(* nodes and write the output file.  One action per statement group; the   *)
(* program counter pc[v] is the position of script v.                      *)
(*                                                                         *)
(* JavaScript values are modelled as follows.                              *)
(*  - a number produced by the size formula is an exact fraction           *)
(*    [kind |-> "number", num, den] or NaN / Infinity; IEEE rounding of    *)
(*    finite results is not modelled;                                      *)
(*  - a link endpoint is [typeof |-> "string", id] or, once d3.forceLink   *)
(*    has resolved it, [typeof |-> "object", node] (a reference to the     *)
(*    node object data.nodes[node]);                                       *)
(*  - node coordinates are not computed: Coord(k) stands for the number a  *)
(*    coordinate holds after k ticks of the simulation;                    *)
(*  - alpha is kept in units of 10^-8, its decrement rounded down.        *)
(***************************************************************************)
EXTENDS Integers, Sequences, FiniteSets, TLC

\* ---------------------------------------------------------------- bounds
\* Every graph of at most MaxNodes nodes and MaxLinks links is an input, and
\* so are the named graphs of Scenarios.  MaxTicks is the loop count used
\* where the input graph varies (the loop body does not depend on the count).
MaxNodes == 2
MaxLinks == 1
MaxTicks == 2

\* ------------------------------------------------------- the two scripts
Variants == {"precompute_layout", "part_001"}

Config_precompute_layout ==
    [ SIMULATION_TICKS |-> 10000,
      classifies       |-> TRUE,
      minSize          |-> 16,
      maxSize          |-> 32,
      forces           |-> {"link", "charge", "center", "x", "y", "collide"},
      alpha            |-> 250000000,   \* 2.5 in units of 10^-8
      alphaDecayInv    |-> 5000 ]       \* alphaDecay = 0.0002 = 1/5000

Config_part_001_Classifying ==
    [ SIMULATION_TICKS |-> 5000,
      classifies       |-> TRUE,
      minSize          |-> 8,
      maxSize          |-> 16,
      forces           |-> {"link", "charge", "center", "x", "y"},
      alpha            |-> 120000000,
      alphaDecayInv    |-> 2000 ]

Config_part_001 ==
    [ SIMULATION_TICKS |-> 5000,
      classifies       |-> FALSE,
      minSize          |-> 8,
      maxSize          |-> 16,
      forces           |-> {"link", "charge", "center", "x", "y"},
      alpha            |-> 120000000,   \* 1.2 in units of 10^-8
      alphaDecayInv    |-> 2000 ]       \* alphaDecay = 0.0005 = 1/2000

Config(v) == IF v = "precompute_layout" THEN Config_precompute_layout
                                         ELSE Config_part_001

\* ------------------------------------------------------ JavaScript values
Undefined == [kind |-> "undefined"]
NaN       == [kind |-> "NaN"]
Null      == [kind |-> "null"]
Infinity  == [kind |-> "Infinity"]
Frac(n, d) == [kind |-> "number", num |-> n, den |-> d]

\* a / b on integers a, b >= 0 as JavaScript divides: 0/0 is NaN, a/0 Infinity
JsDiv(a, b) == IF b = 0 THEN (IF a = 0 THEN NaN ELSE Infinity) ELSE Frac(a, b)

\* lo + span * r for the number r
JsScale(lo, span, r) ==
    IF r.kind = "number" THEN Frac(lo * r.den + span * r.num, r.den) ELSE r

\* r + k for an integer k (undefined + k is NaN)
JsAdd(r, k) == IF r.kind = "number" THEN Frac(r.num + k * r.den, r.den)
               ELSE IF r.kind = "undefined" THEN NaN ELSE r

IsFinite(r) == r.kind = "number"

Str(s) == [typeof |-> "string", id |-> s]
Ref(k) == [typeof |-> "object", node |-> k]

Coord(k) == [kind |-> "number", after |-> k]

\* obj[key], undefined when the object has no such property
Get(obj, key) == IF key \in DOMAIN obj THEN obj[key] ELSE Undefined

\* obj[key] = val
Put(obj, key, val) ==
    [k \in DOMAIN obj \cup {key} |-> IF k = key THEN val ELSE obj[k]]

Max(S) == CHOOSE x \in S : \A y \in S : y <= x
Min(S) == CHOOSE x \in S : \A y \in S : x <= y
Least(a, b) == IF a <= b THEN a ELSE b

\* --------------------------------------------------------- input graphs
IdPool      == <<"A", "B", "C", "D", "E">>
TitlePool   == <<"Alpha", "Beta", "Gamma", "Delta", "Epsilon">>
TagLists    == {<<"person">>, <<"topic">>}
InputTypes  == {"topic_link"}

InputNode(k, tags) ==
    [id |-> IdPool[k], title |-> TitlePool[k], tags |-> tags, content |-> "text"]

\* node lists: the first n ids of the pool, each with any tag list
NodeLists ==
    UNION { { [k \in 1..n |-> InputNode(k, t[k])] : t \in [1..n -> TagLists] }
            : n \in 0..MaxNodes }

\* link ends range over the first MaxNodes ids, so a link may name an id
\* that is not in the node list (a dangling reference)
LinkRecords ==
    LET ids == { IdPool[k] : k \in 1..MaxNodes } IN
      { [source |-> Str(s), target |-> Str(t)] : s \in ids, t \in ids }
      \cup
      { [source |-> Str(s), target |-> Str(t), type |-> ty]
          : s \in ids, t \in ids, ty \in InputTypes }

LinkLists ==
    UNION { [1..m -> LinkRecords] : m \in 0..MaxLinks }

Graphs ==
    { [status |-> "ok", nodes |-> ns, links |-> ls]
        : ns \in NodeLists, ls \in LinkLists }

Missing   == [status |-> "missing",   nodes |-> <<>>, links |-> <<>>]
Malformed == [status |-> "malformed", nodes |-> <<>>, links |-> <<>>]

\* web/vault_data_with_positions.json before the run: left by an earlier run
NoContent == [nodes |-> <<>>, links |-> <<>>]
Stale == [exists |-> TRUE, writer |-> "earlier run", content |-> NoContent]

\* the example of the specification: A is a topic, links A-B and B-C
ExampleGraph ==
    [ status |-> "ok",
      nodes  |-> <<InputNode(1, <<"topic">>), InputNode(2, <<"person">>),
                   InputNode(3, <<"person">>)>>,
      links  |-> <<[source |-> Str("A"), target |-> Str("B")],
                   [source |-> Str("B"), target |-> Str("C")]>> ]

\* one node and a link to an id no node has
DanglingGraph ==
    [ status |-> "ok",
      nodes  |-> <<InputNode(1, <<"person">>)>>,
      links  |-> <<[source |-> Str("A"), target |-> Str("B")]>> ]

\* the same self-loop twice, and a node no link touches
RepeatedLoopGraph ==
    [ status |-> "ok",
      nodes  |-> <<InputNode(1, <<"person">>), InputNode(2, <<"person">>)>>,
      links  |-> <<[source |-> Str("A"), target |-> Str("A")],
                   [source |-> Str("A"), target |-> Str("A")]>> ]

\* degrees 3, 1 and 0; the second link ends at a topic node
ThreeDegreesGraph ==
    [ status |-> "ok",
      nodes  |-> <<InputNode(1, <<"person">>), InputNode(2, <<"topic">>),
                   InputNode(3, <<"person">>)>>,
      links  |-> <<[source |-> Str("A"), target |-> Str("A")],
                   [source |-> Str("A"), target |-> Str("B")]>> ]

Scenarios == {ExampleGraph, DanglingGraph, RepeatedLoopGraph, ThreeDegreesGraph}


\* ------------------------------------------------------------ the state
VARIABLES
    inputFile,       \* vault_data.json: Missing, Malformed or a parsed graph
    simulationTicks, \* the loop count SIMULATION_TICKS each script runs with
    pc,              \* per script: the statement group to execute next
    data,            \* per script: the parsed graph, mutated in place
    nodeDegrees,     \* per script: the object id -> degree
    simulation,      \* per script: the d3 simulation object
    i,               \* per script: the tick loop's counter
    outputData,      \* per script: the projected output record
    outputFile,      \* per script: the file the script writes
    console          \* per script: the phase messages logged so far

vars == <<inputFile, simulationTicks, pc, data, nodeDegrees, simulation, i,
          outputData, outputFile, console>>

ScriptSizesAfterCreate(v) ==
    IF Config(v).classifies
    THEN <<"load", "classify", "degrees", "create", "sizes", "stop", "loop",
           "project", "write", "done">>
    ELSE <<"load", "degrees", "create", "sizes", "stop", "loop",
           "project", "write", "done">>

\* the statement groups of a script, in source order
Script(v) ==
    IF Config(v).classifies
    THEN <<"load", "classify", "degrees", "sizes", "create", "stop", "loop",
           "project", "write", "done">>
    ELSE <<"load", "degrees", "sizes", "create", "stop", "loop",
           "project", "write", "done">>

\* the statement group that follows group p
After(v, p) ==
    LET s == Script(v)
        k == CHOOSE j \in 1..Len(s) : s[j] = p
    IN  s[k + 1]

NoData       == [nodes |-> <<>>, links |-> <<>>]
NoDegrees    == [k \in {} |-> 0]
NoSimulation == [created |-> FALSE]
NoOutput     == [created |-> FALSE]

Log(v, msgs) == [console EXCEPT ![v] = @ \o msgs]
Goto(v, p)   == [pc EXCEPT ![v] = p]
\* ------------------------------------------------- link classification
\* node.tags.includes("topic")
IsTopic(node) == \E t \in 1..Len(node.tags) : node.tags[t] = "topic"

topicNodeIds(nodes) == { nodes[k].id : k \in { j \in 1..Len(nodes) : IsTopic(nodes[j]) } }

\* Set.has(e): an object is never equal to an id string
Has(ids, e) == e.typeof = "string" /\ e.id \in ids

\* link.type === t
HasType(link, t) == "type" \in DOMAIN link /\ link.type = t

ClassifyLinkBothEnds(ids, link) ==
    IF Has(ids, link.source) /\ Has(ids, link.target)
    THEN Put(link, "type", "topic_link") ELSE link

ClassifyLink(ids, link) ==
    IF Has(ids, link.source) \/ Has(ids, link.target)
    THEN Put(link, "type", "topic_link") ELSE link

ClassifyLinks(nodes, links) ==
    [k \in 1..Len(links) |-> ClassifyLink(topicNodeIds(nodes), links[k])]

\* ------------------------------------------------------ degree counting
\* the property key an endpoint is used as
Key(e) == IF e.typeof = "string" THEN e.id ELSE "[object Object]"

\* (nodeDegrees[k] || 0)
OrZero(deg, k) == IF k \in DOMAIN deg THEN deg[k] ELSE 0

InitDegrees(nodes) == [k \in { nodes[j].id : j \in 1..Len(nodes) } |-> 0]

CountLinkSourceOnly(deg, link) ==
    Put(deg, Key(link.source), OrZero(deg, Key(link.source)) + 1)

CountLink(deg, link) ==
    LET d1 == Put(deg, Key(link.source), OrZero(deg, Key(link.source)) + 1)
    IN  Put(d1, Key(link.target), OrZero(d1, Key(link.target)) + 1)

RECURSIVE CountLinks(_, _, _)
CountLinks(deg, links, k) ==
    IF k > Len(links) THEN deg
    ELSE CountLinks(CountLink(deg, links[k]), links, k + 1)

\* ------------------------------------------------------- size assignment
DegreeValues(deg) == { deg[k] : k \in DOMAIN deg }
maxDegree(deg) == Max(DegreeValues(deg))
minDegree(deg) == Min(DegreeValues(deg))

NodeSizeFromZero(v, degree, lo, hi) ==
    JsScale(Config(v).minSize, Config(v).maxSize - Config(v).minSize,
            JsDiv(degree, hi))

\* minSize + (maxSize - minSize) * ((degree - minDegree) / (maxDegree - minDegree))
NodeSize(v, degree, lo, hi) ==
    JsScale(Config(v).minSize, Config(v).maxSize - Config(v).minSize,
            JsDiv(degree - lo, hi - lo))

AssignSizes(v, nodes, deg) ==
    [k \in 1..Len(nodes) |->
        Put(nodes[k], "size",
            NodeSize(v, deg[nodes[k].id], minDegree(deg), maxDegree(deg)))]
\* ------------------------------------------- d3.forceSimulation / forceLink
\* forceSimulation(nodes): every node gets index, x, y, vx, vy
InitializeNodes(nodes) ==
    [k \in 1..Len(nodes) |->
        [index |-> k - 1, x |-> Coord(0), y |-> Coord(0),
         vx |-> Coord(0), vy |-> Coord(0)] @@ nodes[k]]

\* the positions in nodes of the node that .id(d => d.id) maps id e to
NodeById(nodes, e) == { k \in 1..Len(nodes) : nodes[k].id = e.id }

Resolvable(nodes, e) == e.typeof = "object" \/ NodeById(nodes, e) # {}

\* forceLink replaces an id by the node object it names
Find(nodes, e) ==
    IF e.typeof = "object" THEN e ELSE Ref(Max(NodeById(nodes, e)))

\* one link of forceLink's initialize(); thrown: "node not found"
ResolveLink(nodes, link, idx) ==
    LET l0 == Put(link, "index", idx) IN
    IF ~Resolvable(nodes, l0.source) THEN [link |-> l0, thrown |-> TRUE]
    ELSE LET l1 == [l0 EXCEPT !.source = Find(nodes, l0.source)] IN
         IF ~Resolvable(nodes, l1.target) THEN [link |-> l1, thrown |-> TRUE]
         ELSE [link   |-> [l1 EXCEPT !.target = Find(nodes, l1.target)],
               thrown |-> FALSE]

RECURSIVE ResolveLinks(_, _, _)
ResolveLinks(nodes, links, k) ==
    IF k > Len(links) THEN [links |-> links, thrown |-> FALSE]
    ELSE LET r == ResolveLink(nodes, links[k], k - 1) IN
         IF r.thrown
         THEN [links |-> [links EXCEPT ![k] = r.link], thrown |-> TRUE]
         ELSE ResolveLinks(nodes, [links EXCEPT ![k] = r.link], k + 1)

\* forceLink's count[]: the link ends at node k
EndCount(links, k) ==
    Cardinality({ j \in 1..Len(links) : links[j].source = Ref(k) })
  + Cardinality({ j \in 1..Len(links) : links[j].target = Ref(k) })

\* .distance(...)
LinkDistance(v, link) ==
    IF v = "precompute_layout"
    THEN (IF HasType(link, "topic_link") THEN 120 ELSE 50)
    ELSE 50

\* .strength(...); forceLink's default is 1 / min(count[source], count[target])
LinkStrength(v, links, link) ==
    IF v = "precompute_layout"
    THEN (IF HasType(link, "topic_link") THEN Frac(3, 100) ELSE Frac(8, 10))
    ELSE Frac(1, Least(EndCount(links, link.source.node),
                       EndCount(links, link.target.node)))

\* forceCollide(d => d.size + 12)
CollideRadius(node) == JsAdd(Get(node, "size"), 12)

NewSimulation(v, nodes, links) ==
    [ created       |-> TRUE,
      timer         |-> "running",
      forces        |-> Config(v).forces,
      distances     |-> [k \in 1..Len(links) |-> LinkDistance(v, links[k])],
      strengths     |-> [k \in 1..Len(links) |-> LinkStrength(v, links, links[k])],
      radii         |-> IF "collide" \in Config(v).forces
                        THEN [k \in 1..Len(nodes) |-> CollideRadius(nodes[k])]
                        ELSE <<>>,
      alpha         |-> Config(v).alpha,
      alphaDecayInv |-> Config(v).alphaDecayInv,
      ticks         |-> 0 ]

\* simulation.tick(): alpha += (alphaTarget - alpha) * alphaDecay, alphaTarget 0
DecayAlpha(sim) == sim.alpha - (sim.alpha \div sim.alphaDecayInv)

TickSimulation(sim) ==
    [sim EXCEPT !.alpha = DecayAlpha(sim), !.ticks = @ + 1]

\* the forces move every node
TickNodes(nodes, n) ==
    [k \in 1..Len(nodes) |->
        [nodes[k] EXCEPT !.x = Coord(n), !.y = Coord(n),
                         !.vx = Coord(n), !.vy = Coord(n)]]

\* for (let i = 0; i < SIMULATION_TICKS; i++)
LoopConditionInclusive(v) == i[v] <= simulationTicks[v]

LoopCondition(v) == i[v] < simulationTicks[v]

\* ------------------------------------------------------ output projection
ProjectWholeNode(node) == node

ProjectNode(node) ==
    [ id      |-> node.id,
      title   |-> node.title,
      tags    |-> node.tags,
      content |-> node.content,
      x       |-> Get(node, "x"),
      y       |-> Get(node, "y"),
      size    |-> Get(node, "size") ]

\* JSON.stringify: NaN and Infinity are written as null, an undefined
\* property is left out, a nested object is written in place
NumberFields == {"x", "y", "vx", "vy", "size"}

JsonNode(node) ==
    [f \in { g \in DOMAIN node : g \in NumberFields => node[g].kind # "undefined" } |->
        IF f \in NumberFields /\ node[f].kind \in {"NaN", "Infinity"}
        THEN Null ELSE node[f]]

JsonEnd(nodes, e) ==
    IF e.typeof = "string" THEN e
    ELSE [typeof |-> "object", value |-> JsonNode(nodes[e.node])]

JsonLink(nodes, link) ==
    [f \in DOMAIN link |->
        IF f \in {"source", "target"} THEN JsonEnd(nodes, link[f]) ELSE link[f]]

\* the text written for outputData, whose links are data.links
Stringify(out, nodes) ==
    [ nodes |-> [k \in 1..Len(out.nodes) |-> JsonNode(out.nodes[k])],
      links |-> [k \in 1..Len(out.links) |-> JsonLink(nodes, out.links[k])] ]
\* --------------------------------------------------------------- actions
\* lines 15-21: readFileSync and JSON.parse throw on a missing or malformed
\* file; the uncaught exception ends the process
Load(v) ==
    /\ pc[v] = "load"
    /\ IF inputFile.status = "ok"
       THEN /\ data' = [data EXCEPT ![v] =
                          [nodes |-> inputFile.nodes, links |-> inputFile.links]]
            /\ console' = Log(v, <<"Loading graph data...", "Loaded">>)
            /\ pc' = Goto(v, After(v, "load"))
       ELSE /\ data' = data
            /\ console' = Log(v, <<"Loading graph data...">>)
            /\ pc' = Goto(v, "failed")
    /\ UNCHANGED <<inputFile, simulationTicks, nodeDegrees, simulation, i,
                   outputData, outputFile>>

\* precompute_layout.js lines 23-32
Classify(v) ==
    /\ pc[v] = "classify"
    /\ data' = [data EXCEPT ![v].links = ClassifyLinks(data[v].nodes, @)]
    /\ console' = Log(v, <<"Auto-classified">>)
    /\ pc' = Goto(v, After(v, "classify"))
    /\ UNCHANGED <<inputFile, simulationTicks, nodeDegrees, simulation, i,
                   outputData, outputFile>>

\* lines 34-43
CountDegrees(v) ==
    /\ pc[v] = "degrees"
    /\ nodeDegrees' = [nodeDegrees EXCEPT ![v] =
                         CountLinks(InitDegrees(data[v].nodes), data[v].links, 1)]
    /\ pc' = Goto(v, After(v, "degrees"))
    /\ UNCHANGED <<inputFile, simulationTicks, data, simulation, i,
                   outputData, outputFile, console>>

\* lines 45-57
Sizes(v) ==
    /\ pc[v] = "sizes"
    /\ data' = [data EXCEPT ![v].nodes = AssignSizes(v, @, nodeDegrees[v])]
    /\ console' = Log(v, <<"Node degrees range">>)
    /\ pc' = Goto(v, After(v, "sizes"))
    /\ UNCHANGED <<inputFile, simulationTicks, nodeDegrees, simulation, i,
                   outputData, outputFile>>

\* lines 59-78: forceSimulation(data.nodes) initializes the nodes, then
\* .force("link", ...) resolves every link end and throws "node not found"
\* for an id no node has; the const simulation is then never assigned
CreateSimulation(v) ==
    /\ pc[v] = "create"
    /\ LET nodes == InitializeNodes(data[v].nodes)
           r     == ResolveLinks(nodes, data[v].links, 1)
       IN  /\ data' = [data EXCEPT ![v] = [nodes |-> nodes, links |-> r.links]]
           /\ IF r.thrown
              THEN /\ simulation' = simulation
                   /\ pc' = Goto(v, "failed")
              ELSE /\ simulation' = [simulation EXCEPT ![v] =
                                       NewSimulation(v, nodes, r.links)]
                   /\ pc' = Goto(v, After(v, "create"))
    /\ console' = Log(v, <<"Creating force simulation...">>)
    /\ UNCHANGED <<inputFile, simulationTicks, nodeDegrees, i,
                   outputData, outputFile>>

\* lines 80-83, and the loop's let i = 0
StopSimulation(v) ==
    /\ pc[v] = "stop"
    /\ simulation' = [simulation EXCEPT ![v].timer = "stopped"]
    /\ i' = [i EXCEPT ![v] = 0]
    /\ console' = Log(v, <<"Running simulation">>)
    /\ pc' = Goto(v, After(v, "stop"))
    /\ UNCHANGED <<inputFile, simulationTicks, data, nodeDegrees,
                   outputData, outputFile>>

\* lines 86-93: one iteration of the loop
Tick(v) ==
    /\ pc[v] = "loop"
    /\ LoopCondition(v)
    /\ simulation' = [simulation EXCEPT ![v] = TickSimulation(@)]
    /\ data' = [data EXCEPT ![v].nodes = TickNodes(@, simulation[v].ticks + 1)]
    /\ i' = [i EXCEPT ![v] = @ + 1]
    /\ UNCHANGED <<inputFile, simulationTicks, pc, nodeDegrees,
                   outputData, outputFile, console>>

\* the loop condition fails; line 95
LoopExit(v) ==
    /\ pc[v] = "loop"
    /\ ~LoopCondition(v)
    /\ console' = Log(v, <<"Simulation complete! Saving positions...">>)
    /\ pc' = Goto(v, After(v, "loop"))
    /\ UNCHANGED <<inputFile, simulationTicks, data, nodeDegrees, simulation, i,
                   outputData, outputFile>>

\* lines 97-109
Project(v) ==
    /\ pc[v] = "project"
    /\ outputData' = [outputData EXCEPT ![v] =
          [ created |-> TRUE,
            nodes   |-> [k \in 1..Len(data[v].nodes) |-> ProjectNode(data[v].nodes[k])],
            links   |-> data[v].links ]]
    /\ pc' = Goto(v, After(v, "project"))
    /\ UNCHANGED <<inputFile, simulationTicks, data, nodeDegrees, simulation, i,
                   outputFile, console>>

\* lines 111-116
Write(v) ==
    /\ pc[v] = "write"
    /\ outputFile' = [outputFile EXCEPT ![v] =
          [ exists  |-> TRUE,
            writer  |-> v,
            content |-> Stringify(outputData[v], data[v].nodes) ]]
    /\ console' = Log(v, <<"Saved optimized layout", "Final alpha", "Done!">>)
    /\ pc' = Goto(v, After(v, "write"))
    /\ UNCHANGED <<inputFile, simulationTicks, data, nodeDegrees, simulation, i,
                   outputData>>

Next ==
    \E v \in Variants :
        \/ Load(v)
        \/ Classify(v)
        \/ CountDegrees(v)
        \/ Sizes(v)
        \/ CreateSimulation(v)
        \/ StopSimulation(v)
        \/ Tick(v)
        \/ LoopExit(v)
        \/ Project(v)
        \/ Write(v)

\* -------------------------------------------------------- specifications
\* the scripts in running, the input file, the loop count of each
Start(running, file, ticks) ==
    /\ inputFile = file
    /\ simulationTicks = ticks
    /\ pc = [v \in Variants |-> IF v \in running THEN "load" ELSE "idle"]
    /\ data = [v \in Variants |-> NoData]
    /\ nodeDegrees = [v \in Variants |-> NoDegrees]
    /\ simulation = [v \in Variants |-> NoSimulation]
    /\ i = [v \in Variants |-> 0]
    /\ outputData = [v \in Variants |-> NoOutput]
    /\ outputFile = [v \in Variants |-> Stale]
    /\ console = [v \in Variants |-> <<>>]

\* one script run on any input, the loop shortened to MaxTicks iterations
Init ==
    \E v \in Variants, file \in Graphs \cup Scenarios \cup {Missing, Malformed} :
        Start({v}, file, [w \in Variants |-> MaxTicks])

Spec == Init /\ [][Next]_vars
\* both scripts run side by side on the same input
InitPair ==
    \E file \in Graphs \cup Scenarios \cup {Missing, Malformed} :
        Start(Variants, file, [w \in Variants |-> MaxTicks])

SpecPair == InitPair /\ [][Next]_vars

\* one script run with its own SIMULATION_TICKS
InitLoop ==
    \E v \in Variants,
       file \in Scenarios \cup {Missing, Malformed} :
        Start({v}, file, [w \in Variants |-> Config(w).SIMULATION_TICKS])

SpecLoop == InitLoop /\ [][Next]_vars
\* ================================================================ claims
\* script v has executed statement group p and has not failed
Passed(v, p) ==
    LET s == Script(v) IN
      \E j \in 1..Len(s) : s[j] = p /\ \E k \in (j + 1)..Len(s) : s[k] = pc[v]

InputIds == { inputFile.nodes[k].id : k \in 1..Len(inputFile.nodes) }

\* the link ends of the input that name id
EndsNaming(id) ==
    Cardinality({ j \in 1..Len(inputFile.links) : inputFile.links[j].source.id = id })
  + Cardinality({ j \in 1..Len(inputFile.links) : inputFile.links[j].target.id = id })

\* every link end of the input names a node of the input
WellFormed ==
    \A j \in 1..Len(inputFile.links) :
        /\ inputFile.links[j].source.id \in InputIds
        /\ inputFile.links[j].target.id \in InputIds

\* C1: once the degree pass has run, each node's degree is the number of
\* link ends of the input that name it (a self-loop counts twice, a node no
\* link touches has degree 0), for every input, dangling links included.
C1_DegreeIsEndCount ==
    \A v \in Variants :
        Passed(v, "degrees") =>
            \A id \in InputIds :
                id \in DOMAIN nodeDegrees[v] /\ nodeDegrees[v][id] = EndsNaming(id)

\* a run past the degree pass whose input has a self-loop on A repeated
\* twice and a node B that no link touches
C1_Witness ==
    \E v \in Variants :
        /\ Passed(v, "degrees")
        /\ Len(inputFile.links) = 2
        /\ \A j \in 1..2 : /\ inputFile.links[j].source = Str("A")
                           /\ inputFile.links[j].target = Str("A")
        /\ "B" \in InputIds
        /\ nodeDegrees[v]["A"] = 4
        /\ nodeDegrees[v]["B"] = 0

\* the degrees of the input's nodes, as the run counted them
NodeDegreeValues(v) == { nodeDegrees[v][id] : id \in InputIds }

\* the number r equals the integer n
EqualsInt(r, n) == IsFinite(r) /\ r.num = n * r.den

\* C2: when all nodes have the same degree (minDegree = maxDegree), the size
\* pass gives every node exactly minSize, a finite number.
C2_DegenerateRangeGivesMinSize ==
    \A v \in Variants :
        ( /\ Passed(v, "sizes")
          /\ InputIds # {}
          /\ Max(NodeDegreeValues(v)) = Min(NodeDegreeValues(v)) )
        => \A k \in 1..Len(data[v].nodes) :
               EqualsInt(data[v].nodes[k].size, Config(v).minSize)

\* the ids of the nodes written to the output file
WrittenIds(v) ==
    { outputFile[v].content.nodes[k].id
        : k \in 1..Len(outputFile[v].content.nodes) }

\* C3: the written link list is the input link list, in order, every link
\* with its original source and target id strings, each the id of a written
\* node.
C3_OutputLinksKeepIds ==
    \A v \in Variants :
        pc[v] = "done" =>
            /\ Len(outputFile[v].content.links) = Len(inputFile.links)
            /\ \A j \in 1..Len(inputFile.links) :
                 LET out == outputFile[v].content.links[j] IN
                   /\ out.source.typeof = "string"
                   /\ out.target.typeof = "string"
                   /\ out.source = inputFile.links[j].source
                   /\ out.target = inputFile.links[j].target
                   /\ out.source.id \in WrittenIds(v)
                   /\ out.target.id \in WrittenIds(v)
\* input link j has an end that names a topic node of the input
TopicEnd(j) ==
    \/ inputFile.links[j].source.id \in topicNodeIds(inputFile.nodes)
    \/ inputFile.links[j].target.id \in topicNodeIds(inputFile.nodes)

\* the classification pass left link j's type as the input had it
TypeAsInput(v, j) ==
    /\ ("type" \in DOMAIN data[v].links[j]) = ("type" \in DOMAIN inputFile.links[j])
    /\ "type" \in DOMAIN inputFile.links[j]
         => data[v].links[j].type = inputFile.links[j].type

\* C4 as stated: after the classification pass a link's type is "topic_link"
\* if and only if one of its ends names a topic node, also for links that
\* carry a type on input (stated here for inputs whose links all name nodes).
C4_TopicLinkIffTopicEnd ==
    \A v \in Variants :
        ( Passed(v, "classify") /\ WellFormed ) =>
            \A j \in 1..Len(inputFile.links) :
                HasType(data[v].links[j], "topic_link") <=> TopicEnd(j)

\* C4 as amended: after the classification pass a link with a topic end has
\* type "topic_link" and any other link has the type (or the lack of one) it
\* had on input, so the type is "topic_link" if and only if the link has a
\* topic end or was "topic_link" on input; classifying the result again
\* changes no link.
C4_TopicEndOrInputType ==
    \A v \in Variants :
        Passed(v, "classify") =>
            /\ Len(data[v].links) = Len(inputFile.links)
            /\ \A j \in 1..Len(inputFile.links) :
                 /\ TopicEnd(j) => HasType(data[v].links[j], "topic_link")
                 /\ ~TopicEnd(j) => TypeAsInput(v, j)
                 /\ HasType(data[v].links[j], "topic_link")
                      <=> (TopicEnd(j) \/ HasType(inputFile.links[j], "topic_link"))
            /\ ~simulation[v].created =>
                 ClassifyLinks(data[v].nodes, data[v].links) = data[v].links

\* classified, not yet resolved by forceLink: an untyped link with exactly
\* one topic end became "topic_link", an untyped link without a topic end
\* stayed untyped
C4_Witness ==
    \E v \in Variants :
        /\ Passed(v, "classify")
        /\ ~simulation[v].created
        /\ \E j, k \in 1..Len(inputFile.links) :
             /\ TopicEnd(j)
             /\ inputFile.links[j].source.id \notin topicNodeIds(inputFile.nodes)
             /\ "type" \notin DOMAIN inputFile.links[j]
             /\ HasType(data[v].links[j], "topic_link")
             /\ ~TopicEnd(k)
             /\ "type" \notin DOMAIN data[v].links[k]

\* C5: for an input whose links all name nodes and whose nodes do not all
\* have the same degree, each node's size is
\*   minSize + (maxSize - minSize) * (degree - minDegree) / (maxDegree - minDegree)
\* with minDegree and maxDegree taken over the nodes; so minSize <= size <=
\* maxSize, size is non-decreasing in degree, a node of minimum degree gets
\* exactly minSize and a node of maximum degree exactly maxSize.
C5_SizeInterpolatesDegree ==
    \A v \in Variants :
        ( /\ Passed(v, "sizes")
          /\ WellFormed
          /\ InputIds # {}
          /\ Max(NodeDegreeValues(v)) > Min(NodeDegreeValues(v)) )
        =>
        LET lo   == Min(NodeDegreeValues(v))
            hi   == Max(NodeDegreeValues(v))
            mn   == Config(v).minSize
            mx   == Config(v).maxSize
            nodes == data[v].nodes
            deg(k) == nodeDegrees[v][nodes[k].id]
        IN  \A k \in 1..Len(nodes) :
              LET sz == nodes[k].size IN
                /\ IsFinite(sz)
                /\ sz.den > 0
                /\ sz.num * (hi - lo)
                     = (mn * (hi - lo) + (mx - mn) * (deg(k) - lo)) * sz.den
                /\ mn * sz.den <= sz.num
                /\ sz.num <= mx * sz.den
                /\ deg(k) = lo => EqualsInt(sz, mn)
                /\ deg(k) = hi => EqualsInt(sz, mx)
                /\ \A m \in 1..Len(nodes) :
                     deg(k) <= deg(m)
                       => sz.num * nodes[m].size.den <= nodes[m].size.num * sz.den

\* sized nodes of three different degrees: one at minSize, one at maxSize,
\* one strictly between
C5_Witness ==
    \E v \in Variants :
        /\ Passed(v, "sizes")
        /\ WellFormed
        /\ Cardinality(NodeDegreeValues(v)) = 3
        /\ \E k \in 1..Len(data[v].nodes) :
             LET sz == data[v].nodes[k].size IN
               /\ IsFinite(sz)
               /\ Config(v).minSize * sz.den < sz.num
               /\ sz.num < Config(v).maxSize * sz.den

OutputFields == {"id", "title", "tags", "content", "x", "y", "size"}

\* record out carries exactly the output fields, its id, title, tags and
\* content those of input node k
PassesThrough(out, k) ==
    /\ DOMAIN out = OutputFields
    /\ out.id = inputFile.nodes[k].id
    /\ out.title = inputFile.nodes[k].title
    /\ out.tags = inputFile.nodes[k].tags
    /\ out.content = inputFile.nodes[k].content

\* C6: the projected node list, and the node list written to the file, has
\* one record per input node in input order, each with exactly the fields
\* id, title, tags, content, x, y, size, the first four as in the input; no
\* field the simulation added (index, vx, vy) is in it.
C6_OutputNodesPassThrough ==
    \A v \in Variants :
        /\ outputData[v].created =>
             /\ Len(outputData[v].nodes) = Len(inputFile.nodes)
             /\ \A k \in 1..Len(inputFile.nodes) :
                  PassesThrough(outputData[v].nodes[k], k)
        /\ outputFile[v].writer = v =>
             /\ Len(outputFile[v].content.nodes) = Len(inputFile.nodes)
             /\ \A k \in 1..Len(inputFile.nodes) :
                  PassesThrough(outputFile[v].content.nodes[k], k)

\* a finished run over three nodes, whose in-memory nodes carry the
\* simulation's index, vx and vy
C6_Witness ==
    \E v \in Variants :
        /\ pc[v] = "done"
        /\ outputFile[v].writer = v
        /\ Len(inputFile.nodes) = 3
        /\ \A k \in 1..3 : {"index", "vx", "vy"} \subseteq DOMAIN data[v].nodes[k]
\* the file script v wrote is complete and consistent: every node has a
\* finite size, every link end is the id of a written node
CompleteOutput(v) ==
    LET out == outputFile[v].content IN
      /\ \A k \in 1..Len(out.nodes) : out.nodes[k].size.kind = "number"
      /\ \A j \in 1..Len(out.links) :
           /\ out.links[j].source.typeof = "string"
           /\ out.links[j].target.typeof = "string"
           /\ out.links[j].source.id \in WrittenIds(v)
           /\ out.links[j].target.id \in WrittenIds(v)

\* C7: a run writes a complete, consistent file or none: a run that failed
\* (unreadable or unparsable input, a link naming an id no node has) left the
\* file as it was, a file is written only after the load, the passes and all
\* ticks, and a written file is complete.
C7_CompleteOutputOrNone ==
    \A v \in Variants :
        /\ pc[v] = "failed" => outputFile[v] = Stale
        /\ inputFile.status # "ok" \/ ~WellFormed => outputFile[v] = Stale
        /\ outputFile[v].writer = v =>
             /\ pc[v] = "done"
             /\ simulation[v].ticks = simulationTicks[v]
             /\ CompleteOutput(v)

\* ---- C8: the two scripts side by side (SpecPair)
\* the sizes of the two runs are the same ratio of their [minSize, maxSize]
SizeRatiosAgree(a, b) ==
    \A k \in 1..Len(inputFile.nodes) :
        LET sa == data[a].nodes[k].size
            sb == data[b].nodes[k].size
            spanA == Config(a).maxSize - Config(a).minSize
            spanB == Config(b).maxSize - Config(b).minSize
        IN  /\ sa.kind = sb.kind
            /\ IsFinite(sa) =>
                 (sa.num - Config(a).minSize * sa.den) * spanB * sb.den
                   = (sb.num - Config(b).minSize * sb.den) * spanA * sa.den

\* the two runs wrote the same type, or none, on every link
SameLinkTypes(a, b) ==
    \A j \in 1..Len(inputFile.links) :
        LET la == outputFile[a].content.links[j]
            lb == outputFile[b].content.links[j]
        IN  /\ ("type" \in DOMAIN la) = ("type" \in DOMAIN lb)
            /\ "type" \in DOMAIN la => la.type = lb.type

\* C8 as stated: run on the same input the two scripts perform the same
\* passes with the same forces and produce the same degrees, the same link
\* types and sizes of the same interpolation ratio.
C8_VariantsDifferOnlyInConstants ==
    ( pc["precompute_layout"] = "done" /\ pc["part_001"] = "done" ) =>
        /\ console["precompute_layout"] = console["part_001"]
        /\ simulation["precompute_layout"].forces = simulation["part_001"].forces
        /\ nodeDegrees["precompute_layout"] = nodeDegrees["part_001"]
        /\ SameLinkTypes("precompute_layout", "part_001")
        /\ SizeRatiosAgree("precompute_layout", "part_001")

\* C8 as amended: the scripts share the load, degree, size, simulation-loop
\* and projection passes and produce the same degrees and sizes of the same
\* interpolation ratio (both not-a-number when all degrees are equal); but
\* only precompute_layout.js has the classification pass and the collide
\* force, so part_001 writes every link with its input type while
\* precompute_layout.js writes "topic_link" on every link with a topic end,
\* and the written types agree exactly on the links that have no topic end
\* or were "topic_link" on input.
C8_VariantsShareDegreesAndRatios ==
    LET a == "precompute_layout"
        b == "part_001"
    IN  /\ ( Passed(a, "sizes") /\ Passed(b, "sizes") ) =>
              /\ nodeDegrees[a] = nodeDegrees[b]
              /\ SizeRatiosAgree(a, b)
        /\ Passed(b, "load") =>
              \A j \in 1..Len(inputFile.links) :
                  /\ ("type" \in DOMAIN data[b].links[j])
                       = ("type" \in DOMAIN inputFile.links[j])
                  /\ "type" \in DOMAIN inputFile.links[j]
                       => data[b].links[j].type = inputFile.links[j].type
        /\ ( pc[a] = "done" /\ pc[b] = "done" ) =>
              /\ SelectSeq(console[a], LAMBDA m : m # "Auto-classified") = console[b]
              /\ "Auto-classified" \in { console[a][n] : n \in 1..Len(console[a]) }
              /\ simulation[a].forces = simulation[b].forces \cup {"collide"}
              /\ "collide" \notin simulation[b].forces
              /\ \A j \in 1..Len(inputFile.links) :
                   LET la == outputFile[a].content.links[j]
                       lb == outputFile[b].content.links[j]
                   IN  /\ TopicEnd(j) => HasType(la, "topic_link")
                       /\ ( ~TopicEnd(j) \/ HasType(inputFile.links[j], "topic_link") )
                            => /\ ("type" \in DOMAIN la) = ("type" \in DOMAIN lb)
                               /\ "type" \in DOMAIN la => la.type = lb.type

\* both scripts finished on an input with an untyped link to a topic node:
\* precompute_layout.js wrote it as "topic_link", part_001 wrote it untyped
C8_Witness ==
    /\ pc["precompute_layout"] = "done"
    /\ pc["part_001"] = "done"
    /\ Len(inputFile.nodes) = 3
    /\ \E j \in 1..Len(inputFile.links) :
         /\ TopicEnd(j)
         /\ "type" \notin DOMAIN inputFile.links[j]
         /\ HasType(outputFile["precompute_layout"].content.links[j], "topic_link")
         /\ "type" \notin DOMAIN outputFile["part_001"].content.links[j]
\* ---- C9: the order of the passes
\* what the forces captured when the simulation was created is what the
\* links and nodes carry now
ForcesSawFinalData(v) ==
    LET sim == simulation[v] IN
      /\ \A k \in 1..Len(data[v].nodes) : "size" \in DOMAIN data[v].nodes[k]
      /\ Len(sim.distances) = Len(data[v].links)
      /\ \A j \in 1..Len(data[v].links) :
           /\ sim.distances[j] = LinkDistance(v, data[v].links[j])
           /\ sim.strengths[j] = LinkStrength(v, data[v].links, data[v].links[j])
      /\ "collide" \in sim.forces =>
           /\ Len(sim.radii) = Len(data[v].nodes)
           /\ \A k \in 1..Len(data[v].nodes) :
                sim.radii[k] = CollideRadius(data[v].nodes[k])
      /\ Config(v).classifies =>
           \A j \in 1..Len(inputFile.links) :
               TopicEnd(j) => HasType(data[v].links[j], "topic_link")

\* C9: the passes of a run happen in source order: when the simulation
\* exists every link is classified and every node sized, and the distances,
\* strengths and radii the forces computed are those of the final types and
\* sizes; no tick runs before the simulation is created and its timer
\* stopped; the projection and the write come after the last tick.
C9_PassesInSourceOrder ==
    \A v \in Variants :
        /\ simulation[v].created => ForcesSawFinalData(v)
        /\ ~simulation[v].created =>
             /\ i[v] = 0
             /\ ~outputData[v].created
             /\ \A k \in 1..Len(data[v].nodes) :
                  "x" \in DOMAIN data[v].nodes[k] =>
                      pc[v] = "failed" /\ data[v].nodes[k].x = Coord(0)
        /\ ( simulation[v].created /\ simulation[v].ticks > 0 ) =>
             simulation[v].timer = "stopped"
        /\ outputData[v].created =>
             /\ simulation[v].created
             /\ simulation[v].ticks = simulationTicks[v]
             /\ outputData[v].links = data[v].links
             /\ \A k \in 1..Len(outputData[v].nodes) :
                  /\ outputData[v].nodes[k].x = Coord(simulationTicks[v])
                  /\ outputData[v].nodes[k].y = Coord(simulationTicks[v])
                  /\ outputData[v].nodes[k].size = data[v].nodes[k].size
        /\ outputFile[v].writer = v =>
             /\ outputData[v].created
             /\ pc[v] = "done"
             /\ \A k \in 1..Len(outputFile[v].content.nodes) :
                  outputFile[v].content.nodes[k].x = Coord(simulationTicks[v])

\* precompute_layout.js finished on an input with a topic link and nodes of
\* different sizes: the link force used distance 120 for it, the collide
\* force a finite radius
C9_Witness ==
    LET v == "precompute_layout" IN
      /\ pc[v] = "done"
      /\ outputFile[v].writer = v
      /\ \E j \in 1..Len(data[v].links) :
           /\ TopicEnd(j)
           /\ "type" \notin DOMAIN inputFile.links[j]
           /\ simulation[v].distances[j] = 120
      /\ \E j \in 1..Len(data[v].links) : simulation[v].distances[j] = 50
      /\ \E k \in 1..Len(data[v].nodes) :
           /\ IsFinite(simulation[v].radii[k])
           /\ simulation[v].radii[k] = JsAdd(data[v].nodes[k].size, 12)

\* ---- C10: the tick loop (SpecLoop, each script with its SIMULATION_TICKS)
TicksBounded ==
    \A v \in Variants :
        /\ simulation[v].created =>
             /\ simulation[v].ticks = i[v]
             /\ simulation[v].ticks <= Config(v).SIMULATION_TICKS
             /\ 0 < simulation[v].alpha
             /\ simulation[v].alpha <= Config(v).alpha
             /\ simulation[v].ticks > 0 =>
                  /\ simulation[v].alpha < Config(v).alpha
                  /\ simulation[v].timer = "stopped"
        /\ Passed(v, "loop") =>
             /\ simulation[v].ticks = Config(v).SIMULATION_TICKS
             /\ i[v] = Config(v).SIMULATION_TICKS

TickStep ==
    \A v \in Variants :
        /\ ( simulation[v].created /\ simulation'[v].ticks # simulation[v].ticks ) =>
             LET a  == simulation[v].alpha
                 a2 == simulation'[v].alpha
                 d  == simulation[v].alphaDecayInv
             IN  /\ pc[v] = "loop" /\ pc'[v] = "loop"
                 /\ simulation'[v].ticks = simulation[v].ticks + 1
                 /\ i'[v] = i[v] + 1
                 /\ 0 < a2 /\ a2 < a
                 \* a2 = a * (1 - 1/d), the decrement rounded down
                 /\ (a - a2) * d <= a
                 /\ a < (a - a2 + 1) * d
        /\ ( pc[v] = "loop" /\ pc'[v] # "loop" ) =>
             /\ i[v] = Config(v).SIMULATION_TICKS
             /\ simulation'[v] = simulation[v]

\* C10: the loop runs exactly SIMULATION_TICKS ticks (10000, 5000), one per
\* iteration, with the timer stopped, never leaving early and never running
\* an extra tick; each tick multiplies alpha by (1 - alphaDecay), so alpha
\* strictly decreases from its initial value and stays positive.
C10_ExactlySimulationTicks == []TicksBounded /\ [][TickStep]_vars

\* precompute_layout.js is done after 10000 ticks with alpha decayed to
\* between 0.338 and 0.339 (2.5 * 0.9998^10000 = 0.33827)
C10_Witness ==
    /\ pc["precompute_layout"] = "done"
    /\ simulation["precompute_layout"].ticks = 10000
    /\ simulation["precompute_layout"].alpha > 33800000
    /\ simulation["precompute_layout"].alpha < 33900000
    /\ Len(inputFile.links) = 2
====
